---- MODULE Spec2Model ----
(***************************************************************************)
(* The crawl pipeline of scrape.py: the throttle-aware fetcher (get_page,  *)
(* get_data), tagged persistence (tag_and_save), the four stage drivers    *)
(* (process_*_pages), the batched runner (loop_run_in_batch) and the       *)
(* orchestrator (main), run on one cooperative event loop.  One action is  *)
(* one step of one asyncio task between two suspension points.  Spec has   *)
(* the runs in which every request is answered and every write succeeds,   *)
(* FailSpec those in which a request or a write may end in an exception,   *)
(* AnySpec those over lists with repeated elements, FairSpec the runs of   *)
(* Spec that do not stop while a step is possible.                         *)
(***************************************************************************)
EXTENDS Integers, Sequences, FiniteSets, TLC

(* ------------------------------ bounds --------------------------------- *)

\* batch_size ranges over 0..MaxBatch
MaxBatch == 2
\* the server answers with the throttle sentinel at most MaxThrottle times in a run
MaxThrottle == 2
\* at most MaxFailures requests or writes of a run end in an exception
MaxFailures == 1

(* ----------------------- constants of the program ---------------------- *)

ROOTDIR == "data"
BASEURL == "https://understat.com/"
Sentinel == "closed.php"

\* the draw of (random.randint(1, 5), random.random() in tenths) kept: the one
\* that gives the shortest cool down
Draws == {<<1, 0>>}

(* ------------------------------ the inputs ----------------------------- *)

S1415 == <<"2014", "2015">>
S1516 == <<"2015", "2016">>

\* (leagues, seasons) argument lists of main
Inputs ==
    { [leagues |-> <<"EPL", "La_liga">>, seasons |-> <<S1415>>],
      [leagues |-> <<"EPL">>,            seasons |-> <<S1415, S1516>>],
      [leagues |-> <<"EPL">>,            seasons |-> <<S1415>>] }

\* the same, and a list of leagues that names one league twice
AnyInputs == Inputs \cup { [leagues |-> <<"EPL", "EPL">>, seasons |-> <<S1415>>] }

(* ------------------------ pages the server holds ----------------------- *)

\* one <script> element: either its text matches PATTERN (name = JSON.parse('val'))
\* or it does not
Script(n, v) == [match |-> TRUE, name |-> n, val |-> v]

Team(t)   == [title |-> t]
Ident(i)  == [id |-> i]

LeaguePage(teams, players, dates) ==
    << Script("teamsData", teams),
       Script("playersData", players),
       Script("datesData", dates) >>

NoTeams == [x \in {} |-> Team("A")]

\* a page whose only script does not match PATTERN
NoDataPage == << [match |-> FALSE, name |-> "", val |-> <<>>] >>

\* the league pages of season 2014 the server may answer with
LeaguePages ==
    { LeaguePage([i \in {"1", "2"} |-> IF i = "1" THEN Team("A") ELSE Team("B")],
                 <<Ident("p1")>>,
                 <<Ident("m1")>>),
      LeaguePage([i \in {"1", "2"} |-> Team("A")],
                 <<Ident("p1"), Ident("p2"), Ident("p1")>>,
                 <<Ident("m1"), Ident("m2"), Ident("m3")>>),
      LeaguePage(NoTeams, <<>>, <<>>),
      NoDataPage }

\* the page of a team, player or match: its one data script carries the url it is the page of
ItemPage(url) == << Script("data", url) >>

\* the league pages of season 2015 the server may answer with
LaterLeaguePages ==
    { LeaguePage([i \in {"7"} |-> Team("A")], <<Ident("p2")>>, <<Ident("m1")>>) }

\* the item pages the server may also answer without a data script
NoDataUrls == { <<BASEURL, "match", "m3">> }

\* the pages the server may answer a request for url with
PagesAt(url) ==
    IF url[2] = "league"
    THEN (IF url[4] = "2014" THEN LeaguePages ELSE LaterLeaguePages)
    ELSE {ItemPage(url)} \cup (IF url \in NoDataUrls THEN {NoDataPage} ELSE {})

(* ------------------------------ helpers -------------------------------- *)

Min(a, b) == IF a <= b THEN a ELSE b

\* arg_list[start:stop], 0-based and half-open
Slice(s, start, stop) == SubSeq(s, start + 1, stop)

Range(s) == {s[i] : i \in DOMAIN s}

\* every ordering of a set: list(a_set) gives the elements in an order the program does not choose
RECURSIVE Orderings(_)
Orderings(S) ==
    IF S = {} THEN {<<>>}
    ELSE UNION {{<<x>> \o rest : rest \in Orderings(S \ {x})} : x \in S}

\* season.split('-')[0]
SeasonStart(season) == season[1]

\* os.path.join(BASEURL, *segments)
Url(segments) == <<BASEURL>> \o segments

\* mutant: the path is built from the first two parts of the key only
PathSansSeason(key) == <<ROOTDIR, key[1], key[2]>>

\* os.path.join(ROOTDIR, *key)
Path(key) == <<ROOTDIR>> \o key

\* os.path.dirname(path)
Dirname(path) == SubSeq(path, 1, Len(path) - 1)

\* os.makedirs(d): d and every missing ancestor
Makedirs(d) == {SubSeq(d, 1, n) : n \in 1..Len(d)}

(* ----------------------- get_data: the extraction ---------------------- *)

\* data[key] = val_json on a dict: update in place or insert at the end
DictSet(pairs, n, v) ==
    IF \E i \in DOMAIN pairs : pairs[i][1] = n
    THEN [i \in DOMAIN pairs |-> IF pairs[i][1] = n THEN <<n, v>> ELSE pairs[i]]
    ELSE Append(pairs, <<n, v>>)

\* the loop over soup.find_all('script'), then json.dumps(data): the serialized
\* dict is the sequence of its (name, value) pairs in insertion order
RECURSIVE ExtractFrom(_, _)
ExtractFrom(scripts, pairs) ==
    IF scripts = <<>> THEN pairs
    ELSE ExtractFrom(Tail(scripts),
                     IF Head(scripts).match
                     THEN DictSet(pairs, Head(scripts).name, Head(scripts).val)
                     ELSE pairs)

Extract(html) == ExtractFrom(html, <<>>)

\* json.loads(val): the dict as a function from names to values
Loads(pairs) ==
    [n \in {pairs[i][1] : i \in DOMAIN pairs} |->
        pairs[CHOOSE i \in DOMAIN pairs : pairs[i][1] = n][2]]

(* ------------------------- the server's responses ---------------------- *)

\* a response body: its stripped text when it is no markup, its script elements when it is
Throttled == [text |-> Sentinel, scripts |-> <<>>]
Html(page) == [text |-> "", scripts |-> page]

\* mutant: the body is compared unstripped, and the sentinel never recognised
IsThrottlingUnstripped(body) == body.text = "closed.php\n"

\* get_page: html.strip() == 'closed.php' raises ThrottlingError
IsThrottling(body) == body.text = Sentinel

\* what the server may answer a request for url with, n sentinels served so far
ServerBodies(url, n) ==
    {Html(page) : page \in PagesAt(url)} \cup (IF n < MaxThrottle THEN {Throttled} ELSE {})

\* mutant: random.randint(0, 4) + random.random()
CoolDownFromZero(r, f) == (r - 1) * 10 + f

\* random.randint(1, 5) + random.random(), in tenths of a second
CoolDown(r, f) == r * 10 + f

(* ------------------------------- state --------------------------------- *)

VARIABLES
    args,          \* main's arguments: leagues, seasons, batch_size
    pc,            \* where main is: "start", "league", "teamplayer", "match", "done",
                   \* "failed" (an exception left main), "stopped" (the loop ended after it)
    error,         \* the exception main ended with, "" when none
    tasks,         \* the tag_and_save tasks a gather is holding, in creation order
    runner,        \* the three loop_run_in_batch calls, by stage
    group_leagues, \* what process_league_pages returned
    team_seasons,  \* the derived identity sets
    player_ids,
    match_ids,
    store,         \* the files written: path -> content
    dirs,          \* the directories that exist
    writes,        \* how many times each path was opened for writing
    throttles,     \* sentinel responses served so far
    failures       \* requests and writes that ended in an exception so far

vars == <<args, pc, error, tasks, runner, group_leagues, team_seasons, player_ids,
          match_ids, store, dirs, writes, throttles, failures>>

Stages == {"team", "player", "match"}

(* ------------------------------ the tasks ------------------------------ *)

\* tag_and_save(key, get_data(url)) handed to asyncio.gather by a stage driver.
\* The gather schedules the task and the event loop runs it to its first
\* suspension, get_page's request, before any response can arrive.
NewTask(stage, batch, key, url) ==
    [stage |-> stage, batch |-> batch, key |-> key, url |-> url,
     st |-> "fetching", cool |-> 0, body |-> Html(<<>>), data |-> <<>>, err |-> "",
     log |-> << <<"fetch", url>> >>]

\* mutant: the league pages go through batches too, the first batch_size pairs first
LeagueTasksBatched(leagues, seasons) ==
    [k \in 1..Min(args.batch_size, Len(leagues) * Len(seasons)) |->
        LET league == leagues[((k - 1) \div Len(seasons)) + 1]
            season == seasons[((k - 1) % Len(seasons)) + 1]
        IN  NewTask("league", 0, <<"league", league, season>>,
                    Url(<<"league", league, SeasonStart(season)>>))]

\* process_league_pages: one task per element of itertools.product(leagues, seasons)
LeagueTasks(leagues, seasons) ==
    [k \in 1..(Len(leagues) * Len(seasons)) |->
        LET league == leagues[((k - 1) \div Len(seasons)) + 1]
            season == seasons[((k - 1) % Len(seasons)) + 1]
        IN  NewTask("league", 0, <<"league", league, season>>,
                    Url(<<"league", league, SeasonStart(season)>>))]

\* mutant: the key of a team page leaves the season out
DriverTasksSansSeason(stage, chunk, batch) ==
    [k \in 1..Len(chunk) |->
        IF stage = "team"
        THEN NewTask(stage, batch, <<"team", chunk[k][1]>>,
                     Url(<<"team", chunk[k][1], SeasonStart(chunk[k][2])>>))
        ELSE NewTask(stage, batch, <<stage, chunk[k]>>, Url(<<stage, chunk[k]>>))]

\* process_team_pages, process_player_pages, process_match_pages: one task per item
DriverTasks(stage, chunk, batch) ==
    [k \in 1..Len(chunk) |->
        IF stage = "team"
        THEN NewTask(stage, batch, <<"team", chunk[k][1], chunk[k][2]>>,
                     Url(<<"team", chunk[k][1], SeasonStart(chunk[k][2])>>))
        ELSE NewTask(stage, batch, <<stage, chunk[k]>>, Url(<<stage, chunk[k]>>))]

\* the tasks one gather awaits
BatchOf(stage, batch) ==
    {t \in DOMAIN tasks : tasks[t].stage = stage /\ tasks[t].batch = batch}

\* asyncio.gather(*tasks) has every result
Gathered(stage, batch) == \A t \in BatchOf(stage, batch) : tasks[t].st = "done"

\* what the gather returns: every (key, data) a task returned, in the order gathered
GatherResults(stage, batch) ==
    LET done == SelectSeq(tasks, LAMBDA task : task.stage = stage /\ task.batch = batch)
    IN  [k \in DOMAIN done |-> <<done[k].key, done[k].data>>]

\* mutant: process_league_pages returns at the first league task that completes
LeaguesGatheredFirst == \E t \in BatchOf("league", 0) : tasks[t].st = "done"

\* the gather has returned and its finished tasks are dropped: the tasks left
Released(stage, batch) ==
    SelectSeq(tasks, LAMBDA task :
                        ~(task.stage = stage /\ task.batch = batch /\ task.st = "done"))

\* await asyncio.gather(*tasks) in process_league_pages
LeaguesGathered == Gathered("league", 0)

\* mutant: a blocking time.sleep(cool_down) in place of await asyncio.sleep(cool_down)
HoldsLoopSleeping(task) == task.st = "sleeping"

\* a task at an await is suspended and holds nothing: the event loop is free to
\* run any other task that is ready
HoldsLoop(task) == FALSE

LoopFree == \A u \in DOMAIN tasks : ~HoldsLoop(tasks[u])

\* loop.run_until_complete(main(...)) has not returned: the event loop still runs tasks
LoopRunning == pc # "stopped"

\* a task of the gather ended in an exception: the gather hands it to its awaiter
Raised(stage, batch) == {t \in BatchOf(stage, batch) : tasks[t].st = "failed"}

(* -------------------------- loop_run_in_batch -------------------------- *)

\* mutant: floor division, the last partial chunk is dropped
NumBatchesFloor(n, batch_size) == n \div batch_size

NumBatches(n, batch_size) == (n + batch_size - 1) \div batch_size

\* mutant: stop is len(arg_list), the min with (i+1)*batch_size is left out
ChunkToEnd(arg_list, i, batch_size) == Slice(arg_list, i * batch_size, Len(arg_list))

\* arg_list[start:stop] of iteration i
Chunk(arg_list, i, batch_size) ==
    Slice(arg_list, i * batch_size, Min((i + 1) * batch_size, Len(arg_list)))

IdleRunner ==
    [st |-> "idle", arg_list |-> <<>>, batch_size |-> 0, numbatches |-> 0,
     i |-> 0, calls |-> <<>>, err |-> ""]

\* the call loop_run_in_batch(func, arg_list, batch_size)
CallRunner(arg_list, batch_size) ==
    [st |-> "called", arg_list |-> arg_list, batch_size |-> batch_size,
     numbatches |-> 0, i |-> 0, calls |-> <<>>, err |-> ""]

\* an exception leaves loop_run_in_batch
RunnerRaise(r, e) == [r EXCEPT !.st = "failed", !.err = e]

\* mutant: an empty arg_list returns before the division
EnterRunnerEmptyFirst(r) ==
    IF r.arg_list = <<>> THEN [r EXCEPT !.numbatches = 0]
    ELSE IF r.batch_size = 0 THEN RunnerRaise(r, "ZeroDivisionError")
    ELSE [r EXCEPT !.numbatches = NumBatches(Len(r.arg_list), r.batch_size)]

\* the head of loop_run_in_batch: numbatches, an integer division by batch_size
EnterRunner(r) ==
    IF r.batch_size = 0
    THEN RunnerRaise(r, "ZeroDivisionError")
    ELSE [r EXCEPT !.numbatches = NumBatches(Len(r.arg_list), r.batch_size)]

\* iteration i of the for loop, up to its await: func(arg_list[start:stop]),
\* or the end of the loop
Iterate(r, i) ==
    IF r.st = "failed" THEN r
    ELSE IF i < r.numbatches
    THEN [r EXCEPT !.st = "awaiting", !.i = i,
                   !.calls = Append(@, Chunk(r.arg_list, i, r.batch_size))]
    ELSE [r EXCEPT !.st = "done", !.i = i]

\* the tasks iteration i hands to the event loop
Launched(stage, r, i) ==
    IF i < r.numbatches
    THEN DriverTasks(stage, Chunk(r.arg_list, i, r.batch_size), i)
    ELSE <<>>

\* mutant: the driver returns at the first task of the batch that completes
BatchGatheredFirst(s) == \E t \in BatchOf(s, runner[s].i) : tasks[t].st = "done"

\* mutant: the team and the player runner step through their batches in lockstep
BatchGatheredLockstep(s) ==
    /\ Gathered(s, runner[s].i)
    /\ \A o \in {"team", "player"} : runner[o].st = "awaiting" => Gathered(o, runner[o].i)

\* mutant: gather(*tasks, return_exceptions=True), an exception counts as a result
BatchGatheredExceptions(s) ==
    \A t \in BatchOf(s, runner[s].i) : tasks[t].st \in {"done", "failed"}

\* await func(arg_list[start:stop]): the driver's gather of the current batch
BatchGathered(s) == Gathered(s, runner[s].i)

\* mutant: main goes on when the first of the two runners returns
RunnersGatheredFirst == runner["team"].st = "done" \/ runner["player"].st = "done"

\* await asyncio.gather(loop_run_in_batch(team...), loop_run_in_batch(player...))
RunnersGathered == runner["team"].st = "done" /\ runner["player"].st = "done"

(* ---------------------- main: the derivation phase --------------------- *)

\* data = {key: json.loads(val) for key, val in group_leagues}: a later pair
\* replaces an earlier one of the same key
DataOf(gl) ==
    [k \in {gl[i][1] : i \in DOMAIN gl} |->
        Loads(gl[CHOOSE i \in DOMAIN gl :
                    /\ gl[i][1] = k
                    /\ \A j \in DOMAIN gl : gl[j][1] = k => j <= i][2])]

\* val['teamsData'], val['playersData'], val['datesData'] do not raise KeyError
HasCollections(data) ==
    \A k \in DOMAIN data : {"teamsData", "playersData", "datesData"} \subseteq DOMAIN data[k]

\* mutant: every title is paired with every season of the run
TeamSeasonsAnySeason(data) ==
    UNION {{<<data[k]["teamsData"][tid].title, o[3]>> : tid \in DOMAIN data[k]["teamsData"]}
           : <<k, o>> \in (DOMAIN data) \X (DOMAIN data)}

\* team_seasons.update({(team['title'], season) for ... in val['teamsData'].items()})
TeamSeasons(data) ==
    UNION {{<<data[k]["teamsData"][tid].title, k[3]>> : tid \in DOMAIN data[k]["teamsData"]}
           : k \in DOMAIN data}

\* player_ids.update({player['id'] for player in val['playersData']})
PlayerIds(data) ==
    UNION {{data[k]["playersData"][j].id : j \in DOMAIN data[k]["playersData"]}
           : k \in DOMAIN data}

\* match_ids.update({match['id'] for match in val['datesData']})
MatchIds(data) ==
    UNION {{data[k]["datesData"][j].id : j \in DOMAIN data[k]["datesData"]}
           : k \in DOMAIN data}

\* batch_size of the team and the player stage
StageBatchSize(b) == b

\* mutant: the match stage runs with batch_size, not doubled
MatchBatchSizeSame(b) == b

\* batch_size*2 of the match stage
MatchBatchSize(b) == b * 2

(* --------------------------- tag_and_save ------------------------------ *)

\* mutant: the existence check is made before the await of the page, so the
\* directory a sibling has made since is not seen
MustCreateStale(ds, key) ==
    \/ Dirname(Path(key)) \notin ds
    \/ \E u \in DOMAIN tasks : /\ tasks[u].st = "done"
                               /\ Dirname(Path(tasks[u].key)) = Dirname(Path(key))

\* not os.path.isdir(os.path.dirname(path)), evaluated in the step that writes
MustCreate(ds, key) == Dirname(Path(key)) \notin ds

\* os.makedirs(dirname) raises FileExistsError when dirname exists
MakedirsRaises(ds, key) == MustCreate(ds, key) /\ Dirname(Path(key)) \in ds

\* if not os.path.isdir(dirname): os.makedirs(dirname)
SaveDirs(ds, key) ==
    IF MustCreate(ds, key) THEN ds \cup Makedirs(Dirname(Path(key))) ELSE ds

\* with open(path, 'w') as f: f.write(data)
SaveFile(files, key, data) ==
    [p \in DOMAIN files \cup {Path(key)} |-> IF p = Path(key) THEN data ELSE files[p]]

\* open(path, 'w') once more
Opened(w, key) ==
    [p \in DOMAIN w \cup {Path(key)} |->
        (IF p \in DOMAIN w THEN w[p] ELSE 0) + (IF p = Path(key) THEN 1 ELSE 0)]

(* ------------------------- steps of one task --------------------------- *)

\* continue: get_data is back at get_page(url) after a sleep
Retry(task) ==
    [task EXCEPT !.st = "fetching", !.cool = 0, !.log = Append(@, <<"fetch", task.url>>)]

\* except ThrottlingError: cool_down, then await asyncio.sleep(cool_down)
Backoff(task, body, cool_down) ==
    [task EXCEPT !.st = "sleeping", !.body = body, !.cool = cool_down,
                 !.log = Append(@, <<"sleep">>)]

\* else: break, then the extraction, json.dumps, and tag_and_save's write and return
Finish(task, body) ==
    [task EXCEPT !.st = "done", !.body = body, !.data = Extract(body.scripts),
                 !.log = @ \o << <<"extract">>, <<"persist", Path(task.key)>> >>]

\* session.get or response.text raises: get_data catches ThrottlingError only, and
\* the exception leaves get_data and tag_and_save
Abort(task, e) == [task EXCEPT !.st = "failed", !.err = e]

\* else: break and the extraction, then os.makedirs or open raises in tag_and_save
AbortSave(task, e) ==
    [task EXCEPT !.st = "failed", !.err = e, !.log = Append(@, <<"extract">>)]

(* ------------------------------- Init ---------------------------------- *)

\* main(leagues, seasons, batch_size) is called, nothing has run yet
Called(inputs) ==
    /\ args \in {[leagues |-> in.leagues, seasons |-> in.seasons, batch_size |-> b]
                    : in \in inputs, b \in 0..MaxBatch}
    /\ pc = "start"
    /\ error = ""
    /\ tasks = <<>>
    /\ runner = [s \in Stages |-> IdleRunner]
    /\ group_leagues = <<>>
    /\ team_seasons = {}
    /\ player_ids = {}
    /\ match_ids = {}
    /\ store = [p \in {} |-> <<>>]
    /\ dirs = {}
    /\ writes = [p \in {} |-> 0]
    /\ throttles = 0
    /\ failures = 0

Init == Called(Inputs)

AnyInit == Called(AnyInputs)

(* ------------------------------ actions -------------------------------- *)

\* main up to its first await: process_league_pages builds and gathers its tasks
StartLeagues ==
    /\ pc = "start"
    /\ pc' = "league"
    /\ tasks' = LeagueTasks(args.leagues, args.seasons)
    /\ UNCHANGED <<args, error, runner, group_leagues, team_seasons, player_ids, match_ids,
                   store, dirs, writes, throttles, failures>>

\* the response is the sentinel: get_page raises ThrottlingError, get_data sleeps
Throttle(t) ==
    /\ tasks[t].st = "fetching"
    /\ LoopRunning
    /\ LoopFree
    /\ \E body \in ServerBodies(tasks[t].url, throttles), d \in Draws :
          /\ IsThrottling(body)
          /\ tasks' = [tasks EXCEPT ![t] = Backoff(@, body, CoolDown(d[1], d[2]))]
          /\ throttles' = throttles + 1
    /\ UNCHANGED <<args, pc, error, runner, group_leagues, team_seasons, player_ids,
                   match_ids, store, dirs, writes, failures>>

\* asyncio.sleep(cool_down) is over: continue, the next get_page(url)
Wake(t) ==
    /\ tasks[t].st = "sleeping"
    /\ LoopRunning
    /\ \A u \in DOMAIN tasks : u # t => ~HoldsLoop(tasks[u])
    /\ tasks' = [tasks EXCEPT ![t] = Retry(@)]
    /\ UNCHANGED <<args, pc, error, runner, group_leagues, team_seasons, player_ids,
                   match_ids, store, dirs, writes, throttles, failures>>

\* the response is a page: get_data extracts and returns, tag_and_save checks the
\* directory, makes it when it is missing and writes the file, with no await
\* from the check to the return
Receive(t) ==
    /\ tasks[t].st = "fetching"
    /\ LoopRunning
    /\ LoopFree
    /\ \E body \in ServerBodies(tasks[t].url, throttles) :
          /\ ~IsThrottling(body)
          /\ IF MakedirsRaises(dirs, tasks[t].key)
             THEN /\ tasks' = [tasks EXCEPT ![t] = AbortSave(@, "FileExistsError")]
                  /\ UNCHANGED <<dirs, store, writes>>
             ELSE /\ tasks' = [tasks EXCEPT ![t] = Finish(@, body)]
                  /\ dirs' = SaveDirs(dirs, tasks[t].key)
                  /\ store' = SaveFile(store, tasks[t].key, Extract(body.scripts))
                  /\ writes' = Opened(writes, tasks[t].key)
          /\ throttles' = IF body = Throttled THEN throttles + 1 ELSE throttles
    /\ UNCHANGED <<args, pc, error, runner, group_leagues, team_seasons, player_ids,
                   match_ids, failures>>

\* the request fails in the transport: the exception ends the task
TransportFailure(t) ==
    /\ tasks[t].st = "fetching"
    /\ LoopRunning
    /\ LoopFree
    /\ failures < MaxFailures
    /\ tasks' = [tasks EXCEPT ![t] = Abort(@, "ClientError")]
    /\ failures' = failures + 1
    /\ UNCHANGED <<args, pc, error, runner, group_leagues, team_seasons, player_ids,
                   match_ids, store, dirs, writes, throttles>>

\* the response is a page, and the file system refuses the directory or the file:
\* the exception ends the task with nothing written
PersistenceFailure(t) ==
    /\ tasks[t].st = "fetching"
    /\ LoopRunning
    /\ LoopFree
    /\ failures < MaxFailures
    /\ \E body \in ServerBodies(tasks[t].url, throttles) :
          /\ ~IsThrottling(body)
          /\ tasks' = [tasks EXCEPT ![t] = AbortSave(@, "OSError")]
    /\ failures' = failures + 1
    /\ UNCHANGED <<args, pc, error, runner, group_leagues, team_seasons, player_ids,
                   match_ids, store, dirs, writes, throttles>>

\* process_league_pages returns: main derives the identity sets and gathers the
\* team runner and the player runner; the event loop runs both, in turn, to the
\* gather of their first batch before any response can arrive.  A snapshot
\* without one of the three collections ends main with KeyError.
LeagueJoin ==
    /\ pc = "league"
    /\ LeaguesGathered
    /\ LoopFree
    /\ LET gl   == GatherResults("league", 0)
           data == DataOf(gl)
       IN  /\ group_leagues' = gl
           /\ IF HasCollections(data)
              THEN /\ team_seasons' = TeamSeasons(data)
                   /\ player_ids' = PlayerIds(data)
                   /\ match_ids' = MatchIds(data)
                   /\ \E tl \in Orderings(TeamSeasons(data)),
                         pl \in Orderings(PlayerIds(data)) :
                         LET rt == EnterRunner(CallRunner(tl, StageBatchSize(args.batch_size)))
                             rp == EnterRunner(CallRunner(pl, StageBatchSize(args.batch_size)))
                         IN  /\ runner' = [runner EXCEPT !["team"] = Iterate(rt, 0),
                                                         !["player"] = Iterate(rp, 0)]
                             /\ tasks' = Released("league", 0) \o Launched("team", rt, 0)
                                                               \o Launched("player", rp, 0)
                   /\ pc' = "teamplayer"
                   /\ error' = error
              ELSE /\ pc' = "failed"
                   /\ error' = "KeyError"
                   /\ tasks' = Released("league", 0)
                   /\ UNCHANGED <<team_seasons, player_ids, match_ids, runner>>
    /\ UNCHANGED <<args, store, dirs, writes, throttles, failures>>

\* the gather of process_league_pages hands a task's exception to main, which
\* handles none: main ends with it
LeagueRaise ==
    /\ pc = "league"
    /\ \E t \in Raised("league", 0) :
          /\ pc' = "failed"
          /\ error' = tasks[t].err
    /\ UNCHANGED <<args, tasks, runner, group_leagues, team_seasons, player_ids, match_ids,
                   store, dirs, writes, throttles, failures>>

\* the gather of the current batch of stage s returns: the next iteration, or the end
BatchJoin(s) ==
    /\ runner[s].st = "awaiting"
    /\ BatchGathered(s)
    /\ LoopRunning
    /\ LoopFree
    /\ runner' = [runner EXCEPT ![s] = Iterate(@, runner[s].i + 1)]
    /\ tasks' = Released(s, runner[s].i) \o Launched(s, runner[s], runner[s].i + 1)
    /\ pc' = IF s = "match" /\ runner[s].i + 1 >= runner[s].numbatches THEN "done" ELSE pc
    /\ UNCHANGED <<args, error, group_leagues, team_seasons, player_ids, match_ids,
                   store, dirs, writes, throttles, failures>>

\* the gather of the current batch of stage s hands a task's exception to the
\* driver and the runner, which handle none: the runner ends with it, and so does
\* main when it awaits the runner itself, as it does the match runner
BatchRaise(s) ==
    /\ runner[s].st = "awaiting"
    /\ LoopRunning
    /\ \E t \in Raised(s, runner[s].i) :
          /\ runner' = [runner EXCEPT ![s] = RunnerRaise(@, tasks[t].err)]
          /\ pc' = IF s = "match" THEN "failed" ELSE pc
          /\ error' = IF s = "match" THEN tasks[t].err ELSE error
    /\ UNCHANGED <<args, tasks, group_leagues, team_seasons, player_ids, match_ids,
                   store, dirs, writes, throttles, failures>>

\* the gather of the two runners returns: main calls the match runner
PhaseJoin ==
    /\ pc = "teamplayer"
    /\ RunnersGathered
    /\ LoopFree
    /\ \E ml \in Orderings(match_ids) :
          LET r == EnterRunner(CallRunner(ml, MatchBatchSize(args.batch_size)))
          IN  /\ runner' = [runner EXCEPT !["match"] = Iterate(r, 0)]
              /\ tasks' = tasks \o Launched("match", r, 0)
              /\ pc' = IF r.st = "failed" THEN "failed"
                       ELSE IF r.numbatches = 0 THEN "done" ELSE "match"
              /\ error' = IF r.st = "failed" THEN r.err ELSE error
    /\ UNCHANGED <<args, group_leagues, team_seasons, player_ids, match_ids,
                   store, dirs, writes, throttles, failures>>

\* the gather of the two runners hands a runner's exception to main: main ends with it
RunnersRaise ==
    /\ pc = "teamplayer"
    /\ \E s \in {"team", "player"} :
          /\ runner[s].st = "failed"
          /\ error' = runner[s].err
    /\ pc' = "failed"
    /\ UNCHANGED <<args, tasks, runner, group_leagues, team_seasons, player_ids, match_ids,
                   store, dirs, writes, throttles, failures>>

\* main has ended with an exception: run_until_complete stops the loop and raises
\* it; the tasks that are left run no further
LoopStop ==
    /\ pc = "failed"
    /\ pc' = "stopped"
    /\ UNCHANGED <<args, error, tasks, runner, group_leagues, team_seasons, player_ids,
                   match_ids, store, dirs, writes, throttles, failures>>

\* the steps of a run in which every request is answered and every write succeeds
Next ==
    \/ StartLeagues
    \/ \E t \in DOMAIN tasks : Throttle(t)
    \/ \E t \in DOMAIN tasks : Wake(t)
    \/ \E t \in DOMAIN tasks : Receive(t)
    \/ LeagueJoin
    \/ \E s \in Stages : BatchJoin(s)
    \/ PhaseJoin
    \/ RunnersRaise
    \/ LoopStop

\* the steps of a run in which requests and writes may fail
FailNext ==
    \/ Next
    \/ \E t \in DOMAIN tasks : TransportFailure(t)
    \/ \E t \in DOMAIN tasks : PersistenceFailure(t)
    \/ LeagueRaise
    \/ \E s \in Stages : BatchRaise(s)

Spec == Init /\ [][Next]_vars

FailSpec == Init /\ [][FailNext]_vars

\* the runs of main over any lists of leagues and seasons
AnySpec == AnyInit /\ [][Next]_vars

\* the event loop runs every task that is ready and the server answers every
\* request: a run does not stop while a step is possible
FairSpec == Spec /\ WF_vars(Next)

(* ============================= the claims ============================== *)

\* ceil(n / b) for b >= 1, from its definition
Ceil(n, b) == CHOOSE k \in 0..n : k * b >= n /\ (k = 0 \/ (k - 1) * b < n)

RECURSIVE Flatten(_)
Flatten(chunks) ==
    IF chunks = <<>> THEN <<>> ELSE Head(chunks) \o Flatten(Tail(chunks))

\* the tasks of one stage that a gather holds, in creation order
StageTasks(s) == SelectSeq(tasks, LAMBDA task : task.stage = s)

\* the item a team, player or match task was created for
ItemOf(task) == IF task.stage = "team" THEN <<task.key[2], task.key[3]>> ELSE task.key[2]

\* the items of the tasks of stage s that a gather holds, in order
StageItems(s) == [k \in DOMAIN StageTasks(s) |-> ItemOf(StageTasks(s)[k])]

\* the file of an item of stage s
FileOf(s, item) ==
    IF s = "team" THEN <<ROOTDIR, "team", item[1], item[2]>> ELSE <<ROOTDIR, s, item>>

InFlight(task) == task.st \in {"fetching", "sleeping"}

Ops(task, op) == {i \in DOMAIN task.log : task.log[i][1] = op}

Count(task, op) == Cardinality(Ops(task, op))

LeagueSet == {t \in DOMAIN tasks : tasks[t].stage = "league"}

Persisted(t) == Path(tasks[t].key) \in DOMAIN store

\* the (league, season) pairs of the run, in the order of itertools.product
Pairs ==
    {<<args.leagues[l], args.seasons[y]>> :
        l \in DOMAIN args.leagues, y \in DOMAIN args.seasons}

\* body is the markup of a page the server holds for url
IsPageOf(body, url) == body.text = "" /\ body.scripts \in PagesAt(url)

\* what the league pages of each season extract to
LeagueExtracts == {Extract(page) : page \in LeaguePages}
LaterLeagueExtracts == {Extract(page) : page \in LaterLeaguePages}

\* what the pages the server holds for url extract to
ExtractsAt(url) ==
    IF url[2] = "league"
    THEN (IF url[4] = "2014" THEN LeagueExtracts ELSE LaterLeagueExtracts)
    ELSE {Extract(page) : page \in PagesAt(url)}

(* ------------------------------- C1 ------------------------------------ *)

RunnerContract(s) ==
    LET r == runner[s]
        flat == Flatten(r.calls)
    IN  (r.st # "idle" /\ r.batch_size >= 1) =>
          /\ \A c \in DOMAIN r.calls : Len(r.calls[c]) \in 1..r.batch_size
          /\ Len(flat) <= Len(r.arg_list)
          /\ flat = SubSeq(r.arg_list, 1, Len(flat))
          \* the tasks held are those of the chunk last passed, item by item
          /\ StageItems(s) = IF r.calls # <<>> /\ r.st # "done"
                             THEN r.calls[Len(r.calls)] ELSE <<>>
          /\ r.st = "done" => /\ Len(r.calls) = Ceil(Len(r.arg_list), r.batch_size)
                              /\ flat = r.arg_list
          /\ r.arg_list = <<>> => r.st = "done" /\ r.calls = <<>>

\* C1: for every item list and batch_size >= 1 a runner invokes its worker
\* ceil(len/batch_size) times by the time it returns; the chunks are consecutive
\* slices of the list in order, of 1..batch_size items each, their concatenation
\* is the list (each item handed over once); an empty list gives no invocation
\* and the runner returns.
C1_BatchPartition == \A s \in Stages : RunnerContract(s)

C1_Witness ==
    \E s \in Stages :
        /\ runner[s].st = "done"
        /\ Len(runner[s].calls) >= 2
        /\ Len(runner[s].calls[Len(runner[s].calls)]) < runner[s].batch_size

(* ------------------------------- C2 ------------------------------------ *)

\* C2: within one runner every task of a stage that is not yet gathered belongs
\* to the one batch the runner is awaiting, and every item of the batches
\* before it has been persisted.
C2_BatchesSequential ==
    \A t \in DOMAIN tasks : tasks[t].stage \in Stages =>
        LET r == runner[tasks[t].stage]
        IN  /\ r.st \in {"awaiting", "failed"}
            /\ r.i = tasks[t].batch
            /\ Len(r.calls) = r.i + 1
            /\ \A c \in 1..r.i : \A k \in DOMAIN r.calls[c] :
                  FileOf(tasks[t].stage, r.calls[c][k]) \in DOMAIN store

C2_Witness ==
    \E t \in DOMAIN tasks :
        /\ tasks[t].stage \in Stages
        /\ tasks[t].batch = 1 /\ tasks[t].st = "sleeping"
        /\ Len(runner[tasks[t].stage].calls[1]) = 2

(* ------------------------------- C3 ------------------------------------ *)

StageComplete(s, items) ==
    /\ runner[s].st = "done"
    /\ Range(Flatten(runner[s].calls)) = items
    /\ \A item \in items : FileOf(s, item) \in DOMAIN store
    /\ \A t \in DOMAIN tasks : tasks[t].stage # s

\* C3: in every state in which a match task exists, the team stage and the
\* player stage have completed: both runners have returned, every derived team
\* and player was handed to a batch and has its file written, and no team or
\* player task is left.
C3_MatchAfterTeamPlayer ==
    (\E t \in DOMAIN tasks : tasks[t].stage = "match") =>
        /\ StageComplete("team", team_seasons)
        /\ StageComplete("player", player_ids)

C3_Witness ==
    /\ \E t \in DOMAIN tasks : tasks[t].stage = "match"
    /\ Len(runner["team"].calls) >= 2
    /\ Len(runner["player"].calls) >= 2

(* ------------------------------- C4 ------------------------------------ *)

LeaguesJoined ==
    /\ LeagueSet = {}
    /\ Len(group_leagues) = Len(args.leagues) * Len(args.seasons)
    /\ \A pr \in Pairs : <<ROOTDIR, "league", pr[1], pr[2]>> \in DOMAIN store

Derived == <<team_seasons, player_ids, match_ids>>

\* C4: while a league task is still fetching or backing off, main is at the
\* league gather, the derived sets and the league results are unwritten, and no
\* team, player or match task exists.
C4_DerivationAfterJoin ==
    (\/ pc \in {"teamplayer", "match", "done"}
     \/ Derived # <<{}, {}, {}>>
     \/ group_leagues # <<>>
     \/ \E t \in DOMAIN tasks : tasks[t].stage \in Stages) => LeaguesJoined

C4_Witness ==
    /\ pc = "teamplayer"
    /\ team_seasons # {} /\ player_ids # {} /\ match_ids # {}
    /\ Len(group_leagues) >= 2
    /\ throttles > 0

(* ------------------------------- C5 ------------------------------------ *)

FetcherContract(task) ==
    LET k == Count(task, "sleep")
    IN  /\ task.st \in {"fetching", "sleeping", "done", "failed"}
        /\ task.st = "failed" => /\ task.err \in {"ClientError", "OSError"}
                                 /\ Count(task, "fetch") = k + 1
        /\ \A i \in Ops(task, "fetch") : task.log[i][2] = task.url
        \* the first k rounds are request, then sleep
        /\ \A j \in 1..k : /\ task.log[2 * j - 1][1] = "fetch"
                           /\ task.log[2 * j][1] = "sleep"
        /\ task.st = "sleeping" => /\ Count(task, "fetch") = k
                                   /\ task.cool > 0
                                   /\ task.body = Throttled
        /\ task.st = "fetching" => Count(task, "fetch") = k + 1
        /\ task.st = "done" => /\ Count(task, "fetch") = k + 1
                               /\ IsPageOf(task.body, task.url)
                               /\ task.data = Extract(task.body.scripts)

\* C5: a task whose url was answered with the sentinel k times has slept k
\* times, each time for a positive duration and right after a request, and has
\* made k requests while asleep and k+1 otherwise, all to its own url; once it
\* has a page it goes on with that page's body; it never gives up.
C5_ThrottleRetry == \A t \in DOMAIN tasks : FetcherContract(tasks[t])

C5_Witness ==
    \E t \in DOMAIN tasks : tasks[t].st = "done" /\ Count(tasks[t], "sleep") = 2

(* ------------------------------- C6 ------------------------------------ *)

TaskOrder(task) ==
    LET n == Len(task.log)
    IN  IF task.st = "done"
        THEN /\ n >= 3
             /\ task.log[n - 2] = <<"fetch", task.url>>
             /\ task.log[n - 1] = <<"extract">>
             /\ task.log[n] = <<"persist", Path(task.key)>>
             /\ Count(task, "extract") = 1
             /\ Count(task, "persist") = 1
             /\ ~(task.body = Throttled)
             /\ IsPageOf(task.body, task.url)
             /\ store[Path(task.key)] = Extract(task.body.scripts)
        ELSE /\ Count(task, "extract") = (IF task.err \in {"OSError", "FileExistsError"}
                                          THEN 1 ELSE 0)
             /\ Count(task, "persist") = 0

\* the url a file's key is fetched from
UrlOfFile(p) ==
    IF p[2] \in {"league", "team"}
    THEN <<BASEURL, p[2], p[3], p[4][1]>>
    ELSE <<BASEURL, p[2], p[3]>>

\* C6: the pipeline never ends with ThrottlingError; a task is done only with a
\* page that is not the sentinel, its last three steps being request, extract,
\* persist, and its file then holds the extraction of that page; a task that is
\* not done has written nothing; every file is the extraction of a page of its
\* key's url.
C6_ThrottleContained ==
    /\ error # "ThrottlingError"
    /\ \A t \in DOMAIN tasks : (tasks[t].st = "done" => Persisted(t)) /\ TaskOrder(tasks[t])
    /\ \A p \in DOMAIN store :
          /\ store[p] \in ExtractsAt(UrlOfFile(p))
          /\ \A t \in DOMAIN tasks : Path(tasks[t].key) = p => tasks[t].st = "done"

C6_Witness ==
    \E t \in DOMAIN tasks :
        /\ tasks[t].st = "done"
        /\ Count(tasks[t], "sleep") > 0
        /\ Persisted(t)
        /\ store[Path(tasks[t].key)] # <<>>

(* ------------------------------- C7 ------------------------------------ *)

BatchesInFlight(s) ==
    {tasks[t].batch : t \in {u \in DOMAIN tasks : tasks[u].stage = s /\ InFlight(tasks[u])}}

\* C7: the team runner and the player runner each go on to their next batch as
\* soon as their own batch is gathered, whatever the other is doing, and each
\* has at most one batch in flight.
C7_TeamPlayerConcurrent ==
    \A s \in {"team", "player"} :
        /\ Cardinality(BatchesInFlight(s)) <= 1
        /\ (LoopRunning /\ runner[s].st = "awaiting" /\ Gathered(s, runner[s].i))
              => ENABLED BatchJoin(s)

C7_Witness ==
    \E t, u \in DOMAIN tasks :
        /\ tasks[t].stage = "team" /\ tasks[t].batch = 1 /\ InFlight(tasks[t])
        /\ tasks[u].stage = "player" /\ tasks[u].batch = 0 /\ InFlight(tasks[u])

(* ------------------------------- C8 ------------------------------------ *)

\* C8: while a task is asleep in its backoff, every other task awaiting a
\* response can receive it, finish and persist, every other sleeper can wake,
\* and every runner whose batch is gathered can go on.
C8_BackoffDoesNotBlock ==
    \A t \in DOMAIN tasks : (LoopRunning /\ tasks[t].st = "sleeping") =>
        /\ \A u \in DOMAIN tasks \ {t} :
              /\ tasks[u].st = "fetching" => ENABLED Receive(u)
              /\ tasks[u].st = "sleeping" => ENABLED Wake(u)
        /\ \A s \in Stages :
              (runner[s].st = "awaiting" /\ Gathered(s, runner[s].i)) => ENABLED BatchJoin(s)

C8_Witness ==
    \E t, u, v \in DOMAIN tasks :
        /\ tasks[t].st = "sleeping" /\ Count(tasks[t], "sleep") = 2
        /\ u # t /\ tasks[u].stage = tasks[t].stage /\ tasks[u].batch = tasks[t].batch
        /\ tasks[u].st = "done" /\ Persisted(u)
        /\ tasks[t].stage = "team" /\ tasks[v].stage = "player"
        /\ tasks[v].st = "done" /\ Persisted(v)

(* ------------------------------- C9 ------------------------------------ *)

\* the league snapshots of the run: the files of the (league, season) pairs
Snapshots == {p \in DOMAIN store : p[2] = "league"}

\* the collections named n of the snapshot in file p (one, or none)
Collections(p, n) ==
    {store[p][i][2] : i \in {j \in DOMAIN store[p] : store[p][j][1] = n}}

TeamsSeen ==
    UNION {UNION {{<<c[tid].title, p[4]>> : tid \in DOMAIN c}
                  : c \in Collections(p, "teamsData")} : p \in Snapshots}

IdsSeen(n) ==
    UNION {UNION {{c[j].id : j \in DOMAIN c} : c \in Collections(p, n)} : p \in Snapshots}

OncePerIdentity(s, items) ==
    runner[s].st # "idle" =>
        /\ Range(runner[s].arg_list) = items
        /\ Len(runner[s].arg_list) = Cardinality(items)

\* C9: once derived, the team set is the set of (title, season) pairs with title
\* a team title in the teamsData of the snapshot stored for a league of that
\* season, the player set the ids of all playersData, the match set the ids of
\* all datesData; each runner's list holds each derived identity exactly once.
C9_DerivedSets ==
    pc \in {"teamplayer", "match", "done"} =>
        /\ team_seasons = TeamsSeen
        /\ player_ids = IdsSeen("playersData")
        /\ match_ids = IdsSeen("datesData")
        /\ OncePerIdentity("team", team_seasons)
        /\ OncePerIdentity("player", player_ids)
        /\ OncePerIdentity("match", match_ids)

C9_Witness ==
    /\ pc = "done"
    /\ Cardinality(Snapshots) = 2
    /\ \E a, b \in team_seasons : a[1] = b[1] /\ a[2] # b[2]
    /\ Cardinality(team_seasons) = 3
    /\ Cardinality(player_ids) = 2

(* ------------------------------- C10 ----------------------------------- *)

BatchCount(s, n, b) ==
    /\ Len(runner[s].calls) = Ceil(n, b)
    /\ \A c \in DOMAIN runner[s].calls : Len(runner[s].calls[c]) <= b

OnePerPair ==
    /\ Cardinality(LeagueSet) = Len(args.leagues) * Len(args.seasons)
    /\ \A pr \in Pairs :
          Cardinality({t \in LeagueSet : tasks[t].key = <<"league", pr[1], pr[2]>>}) = 1

\* C10: a run that completes has executed ceil(N/B) team batches and ceil(M/B)
\* player batches of at most B items and ceil(K/(2B)) match batches of at most 2B
\* items, N, M, K the sizes of the derived sets and B batch_size; the league
\* phase issues one task per (league, season) pair.
C10_BatchCounts ==
    /\ pc = "league" => OnePerPair
    /\ pc = "done" =>
          /\ Len(group_leagues) = Len(args.leagues) * Len(args.seasons)
          /\ BatchCount("team", Cardinality(team_seasons), args.batch_size)
          /\ BatchCount("player", Cardinality(player_ids), args.batch_size)
          /\ BatchCount("match", Cardinality(match_ids), 2 * args.batch_size)

C10_Witness ==
    /\ pc = "done"
    /\ args.batch_size = 1
    /\ Cardinality(team_seasons) = 2
    /\ Cardinality(player_ids) = 2
    /\ Cardinality(match_ids) = 3
    /\ Len(runner["match"].calls) = 2

(* ------------------------------- C11 ----------------------------------- *)

\* every key of the run has its file: the league pairs and the derived identities
AllPersisted ==
    /\ \A pr \in Pairs : <<ROOTDIR, "league", pr[1], pr[2]>> \in DOMAIN store
    /\ \A item \in team_seasons : FileOf("team", item) \in DOMAIN store
    /\ \A item \in player_ids : FileOf("player", item) \in DOMAIN store
    /\ \A item \in match_ids : FileOf("match", item) \in DOMAIN store

\* C11: under fair scheduling, with finitely many throttles and no transport or
\* persistence failure, a run with batch_size >= 1 eventually reaches the
\* terminal state in which main has returned and every league, team, player and
\* match key has its file.
C11_EventuallyComplete ==
    args.batch_size >= 1 => <>(pc = "done" /\ AllPersisted)

(* ------------------------------- C12 ----------------------------------- *)

\* the file a key is to be stored in, part by part
FileOfKey(key) ==
    IF Len(key) = 3 THEN <<ROOTDIR, key[1], key[2], key[3]>> ELSE <<ROOTDIR, key[1], key[2]>>

\* the number of keys of a completed run
KeyCount ==
    Cardinality(Pairs) + Cardinality(team_seasons) + Cardinality(player_ids)
        + Cardinality(match_ids)

\* C12: tasks with distinct keys write to distinct paths, the path of a key is
\* the root followed by the parts of the key, the file of a finished task holds
\* what that task extracted, an item's file holds the data of its own url or
\* nothing, and a completed run has left one file per key.
C12_OwnPathOwnContent ==
    /\ \A t, u \in DOMAIN tasks :
          /\ Path(tasks[t].key) = FileOfKey(tasks[t].key)
          /\ tasks[t].key # tasks[u].key => Path(tasks[t].key) # Path(tasks[u].key)
    /\ \A t \in DOMAIN tasks : tasks[t].st = "done" =>
          /\ FileOfKey(tasks[t].key) \in DOMAIN store
          /\ store[FileOfKey(tasks[t].key)] = tasks[t].data
    /\ \A p \in DOMAIN store :
          p[2] # "league" => store[p] \in {<<>>, << <<"data", UrlOfFile(p)>> >>}
    /\ pc = "done" => Cardinality(DOMAIN store) = KeyCount

C12_Witness ==
    \E p, q \in DOMAIN store :
        /\ p[2] = "team" /\ q[2] = "team"
        /\ p[3] = q[3] /\ p[4] # q[4]
        /\ store[p] # <<>> /\ store[q] # <<>> /\ store[p] # store[q]

(* ------------------------------- C13 ----------------------------------- *)

\* the other tasks of the gather that task t is part of
Siblings(t) == BatchOf(tasks[t].stage, tasks[t].batch) \ {t}

\* C13: when a task has ended in a persistence failure and the run is over,
\* every other task of its batch has run to completion and persisted its key.
C13_PersistenceFailureContained ==
    \A t \in DOMAIN tasks :
        (tasks[t].st = "failed" /\ tasks[t].err = "OSError" /\ ~LoopRunning) =>
            \A u \in Siblings(t) : tasks[u].st = "done" /\ Persisted(u)

(* ------------------------------- C14 ----------------------------------- *)

\* the gather that task t is part of has handed an exception to its awaiter
GatherEnded(t) ==
    IF tasks[t].stage = "league" THEN pc \in {"failed", "stopped"}
    ELSE runner[tasks[t].stage].st = "failed"

\* C14 as stated: once the gather of a batch has ended with a transport failure,
\* the rest of that batch is cancelled: no other task of the batch takes a step.
C14_RestOfBatchCancelled ==
    [][\A t \in DOMAIN tasks :
          (tasks[t].err = "ClientError" /\ GatherEnded(t)) =>
              \A u \in Siblings(t) : \E v \in DOMAIN tasks' : tasks'[v] = tasks[u]]_vars

TransportAbort(t) ==
    LET task == tasks[t]
    IN  /\ task.st = "failed"
        \* the failed request was the last: no retry
        /\ task.log[Len(task.log)] = <<"fetch", task.url>>
        /\ Count(task, "fetch") = Count(task, "sleep") + 1
        /\ FileOfKey(task.key) \notin DOMAIN store
        /\ pc # "done"
        /\ pc \in {"failed", "stopped"} => error \in {"ClientError", "OSError"}
        /\ task.stage = "league" =>
              /\ pc \in {"league", "failed", "stopped"}
              /\ group_leagues = <<>>
              /\ \A u \in DOMAIN tasks : tasks[u].stage = "league"
        /\ task.stage \in Stages =>
              /\ runner[task.stage].st \in {"awaiting", "failed"}
              /\ runner[task.stage].i = task.batch
              /\ Len(runner[task.stage].calls) = task.batch + 1
              /\ task.stage # "match" => runner["match"].st = "idle"
        \* the rest of the batch is not cancelled
        /\ \A u \in Siblings(t) :
              (LoopRunning /\ tasks[u].st = "fetching") => ENABLED Receive(u)

\* C14, amended: a task whose request failed in the transport has ended with that
\* error after its last request, without a retry, and its key is not persisted;
\* the runner of its batch starts no later batch, the next phase is not started
\* and main never completes; the rest of the batch is not cancelled: while the
\* loop runs, every sibling still awaiting its page can receive and persist it.
C14_TransportFailureAborts ==
    \A t \in DOMAIN tasks : tasks[t].err = "ClientError" => TransportAbort(t)

C14_Witness ==
    \E t, u \in DOMAIN tasks :
        /\ tasks[t].err = "ClientError" /\ tasks[t].stage = "team"
        /\ u \in Siblings(t) /\ tasks[u].st = "done" /\ Persisted(u)
        /\ runner["team"].st = "failed" /\ error = "ClientError"
        /\ runner["player"].st = "done" /\ runner["player"].calls # <<>>
        /\ pc = "stopped"

(* ------------------------------- C15 ----------------------------------- *)

ZeroBatchRejected(s) ==
    /\ runner[s].st = "failed"
    /\ runner[s].err = "ZeroDivisionError"
    /\ runner[s].calls = <<>>
    /\ \A t \in DOMAIN tasks : tasks[t].stage # s
    /\ \A p \in DOMAIN store : p[2] # s
    /\ pc \in {"teamplayer", "failed", "stopped"}
    /\ pc \in {"failed", "stopped"} => error = "ZeroDivisionError"

\* C15: a runner called with batch_size = 0 ends with an error, whatever its
\* list, the empty list included: it has invoked its worker on no chunk, no task
\* of its stage exists and no file of its stage is written, and main does not
\* complete.
C15_ZeroBatchRejected ==
    \A s \in Stages :
        (runner[s].st # "idle" /\ runner[s].batch_size = 0) => ZeroBatchRejected(s)

C15_Witness ==
    /\ runner["team"].batch_size = 0
    /\ runner["team"].st = "failed" /\ runner["team"].arg_list = <<>>
    /\ runner["player"].st = "failed" /\ runner["player"].arg_list = <<>>
    /\ error = "ZeroDivisionError"
    /\ pc = "stopped"

(* ------------------------------- C16 ----------------------------------- *)

\* the files that hold the empty extraction result
EmptyResults == {p \in DOMAIN store : store[p] = <<>>}

\* C16: a page without a matching data script is no error in any stage: a run
\* with batch_size >= 1 in which a file holds the empty extraction result does
\* not end with an exception.
C16_AbsenceIsNoError ==
    (args.batch_size >= 1 /\ EmptyResults # {}) => pc \notin {"failed", "stopped"}

(* ------------------------------- C17 ----------------------------------- *)

\* the directories above a file
Ancestors(p) == {SubSeq(p, 1, n) : n \in 1..(Len(p) - 1)}

\* C17: no task ever fails on a directory that exists already: every task that
\* has its page has found or made its directory and written its file, whatever
\* tasks of the same directory finished before it, and every file lies in
\* directories that exist.
C17_DirectoryRaceTolerated ==
    /\ error # "FileExistsError"
    /\ \A t \in DOMAIN tasks :
          /\ tasks[t].err # "FileExistsError"
          /\ tasks[t].st = "done" => /\ FileOfKey(tasks[t].key) \in DOMAIN store
                                     /\ Ancestors(FileOfKey(tasks[t].key)) \subseteq dirs
          /\ tasks[t].st = "fetching" => ~MakedirsRaises(dirs, tasks[t].key)
    /\ \A p \in DOMAIN store : Ancestors(p) \subseteq dirs

\* two tasks of one gather that needed the same directory, missing when they
\* were launched, have both written their files
C17_Witness ==
    \E t, u \in DOMAIN tasks :
        /\ t # u /\ tasks[t].stage = "league" /\ tasks[u].stage = "league"
        /\ Dirname(FileOfKey(tasks[t].key)) = Dirname(FileOfKey(tasks[u].key))
        /\ tasks[t].st = "done" /\ tasks[u].st = "done"
        /\ Count(tasks[u], "sleep") > 0
        /\ FileOfKey(tasks[t].key) \in DOMAIN store /\ FileOfKey(tasks[u].key) \in DOMAIN store

(* ------------------------------- C18 ----------------------------------- *)

NoDuplicates(list) == \A i, j \in DOMAIN list : i # j => list[i] # list[j]

KeysDistinct ==
    /\ \A t, u \in DOMAIN tasks : t # u => tasks[t].key # tasks[u].key
    /\ \A p \in DOMAIN writes : writes[p] <= 1
    \* a task in flight has a path no task has written
    /\ \A t \in DOMAIN tasks : tasks[t].st # "done" => Path(tasks[t].key) \notin DOMAIN writes

\* C18 as stated: for any lists of leagues and seasons the keys of the tasks
\* are pairwise distinct and every path is written at most once.
C18_KeysDistinctAnyInput == KeysDistinct

\* C18, amended: when the list of leagues and the list of seasons each name no
\* element twice, the keys of the tasks are pairwise distinct, every path is
\* written at most once, and no task in flight has a path already written.
C18_KeysDistinct ==
    (NoDuplicates(args.leagues) /\ NoDuplicates(args.seasons)) => KeysDistinct

C18_Witness ==
    /\ NoDuplicates(args.leagues) /\ NoDuplicates(args.seasons)
    /\ pc = "done"
    /\ Cardinality(DOMAIN writes) >= 8
    /\ \A p \in DOMAIN writes : writes[p] = 1

(* ------------------------------- C19 ----------------------------------- *)

\* the tasks of stage s that have not ended
InFlightOf(s) == {t \in DOMAIN tasks : tasks[t].stage = s /\ InFlight(tasks[t])}

\* the tasks of stage s a gather holds, ended or not
HeldOf(s) == {t \in DOMAIN tasks : tasks[t].stage = s}

\* C19: with B = batch_size, at most B team tasks and at most B player tasks
\* exist at any time, at most 2B together, and at most 2B match tasks; while
\* team or player tasks exist no match task does, and the other way round.
C19_PeakConcurrency ==
    /\ Cardinality(HeldOf("team")) <= args.batch_size
    /\ Cardinality(HeldOf("player")) <= args.batch_size
    /\ Cardinality(InFlightOf("team") \cup InFlightOf("player")) <= 2 * args.batch_size
    /\ Cardinality(HeldOf("match")) <= 2 * args.batch_size
    /\ HeldOf("match") = {} \/ HeldOf("team") \cup HeldOf("player") = {}
    /\ pc = "teamplayer" => HeldOf("match") = {}
    /\ pc \in {"match", "done"} => HeldOf("team") \cup HeldOf("player") = {}

C19_Witness ==
    /\ args.batch_size = 2
    /\ Cardinality(team_seasons) > 2
    /\ Cardinality(InFlightOf("team")) = 2
    /\ Cardinality(InFlightOf("player")) = 2
    /\ \E t \in InFlightOf("team") : Count(tasks[t], "sleep") = 2 /\ tasks[t].st = "sleeping"

(* ------------------------------- C20 ----------------------------------- *)

PairCount == Len(args.leagues) * Len(args.seasons)

\* the place of the pair (leagues[l], seasons[y]) in the order of itertools.product
PairIndex(l, y) == (l - 1) * Len(args.seasons) + y

\* one entry per pair, in the order of the pairs, each with the key of its pair
OnePerPairInOrder(entries) ==
    /\ Len(entries) = PairCount
    /\ \A l \in DOMAIN args.leagues, y \in DOMAIN args.seasons :
          entries[PairIndex(l, y)] = <<"league", args.leagues[l], args.seasons[y]>>

\* C20: while main awaits the league stage, the tasks are exactly one league
\* task per (league, season) pair, all in one gather whatever batch_size is,
\* and each of them that awaits its page can receive it whatever the others
\* do; what the league stage returns is one (key, result) pair per pair, the
\* result being what was stored under the key.
C20_LeaguesUnbatched ==
    /\ pc = "league" =>
          /\ OnePerPairInOrder([k \in DOMAIN tasks |-> tasks[k].key])
          /\ \A t \in DOMAIN tasks :
                /\ tasks[t].stage = "league" /\ tasks[t].batch = 0
                /\ tasks[t].st = "fetching" => ENABLED Receive(t)
    /\ (pc \in {"teamplayer", "match", "done"} \/ error = "KeyError") =>
          /\ OnePerPairInOrder([k \in DOMAIN group_leagues |-> group_leagues[k][1]])
          /\ \A k \in DOMAIN group_leagues :
                group_leagues[k][2] = store[FileOfKey(group_leagues[k][1])]

C20_Witness ==
    /\ pc = "league"
    /\ args.batch_size >= 1
    /\ Cardinality(InFlightOf("league")) > args.batch_size
    /\ \E t, u \in InFlightOf("league") : tasks[t].st = "sleeping" /\ tasks[u].st = "fetching"

====
